---- MODULE Spec2Model ----
(***************************************************************************)
(* Model of the acquisition-and-indexing control loop of the search        *)
(* project: control_pipeline (control/orchestrator.py), download_book      *)
(* (crawler/downloader.py), schedule_index_for_book (indexer/              *)
(* indexer_core.py), build_index_from_paths (indexer/indexer_db.py) and    *)
(* save_metadata (metadata/metadata.py).                                   *)
(*                                                                         *)
(* Identifiers are Python strings in the ledgers and in the postings; they *)
(* are modelled as sequences of decimal digits, so that string order and   *)
(* (length, string) order are computed as the code computes them.  Ledger  *)
(* files are sequences of characters: the digits 0..9 and NL.              *)
(***************************************************************************)
EXTENDS Naturals, Integers, Sequences, FiniteSets, TLC

VARIABLES
    \* ---- persistent state (files and stores)
    dlFile,         \* control/downloaded_books.txt
    ixFile,         \* control/indexed_books.txt
    datalake,       \* data/datalake/YYYYMMDD/HH/{id}.{header,body}.txt
    rawDir,         \* data/raw/{id}.txt
    jsonIndex,      \* data/datamarts/inverted_index.json
    sqlIndex,       \* table inverted of inverted_index.sqlite
    mongoIndex,     \* collection inverted_index of MongoDB
    metaDb,         \* table books of metadata.sqlite
    metaCsv,        \* metadata.csv
    metaMongo,      \* collection metadata of MongoDB
    hour,           \* the time partition datetime.utcnow() falls in
    \* ---- one control_pipeline call (its arguments, locals and position)
    pc,
    target,         \* target_new_downloads
    total_tries,
    downloaded,     \* the local set 'downloaded'
    ready,          \* ready_to_index
    idx,            \* position of the for loop in ready_to_index
    new_downloaded,
    tries,
    cand,           \* candidate_id, as an integer
    attempt,        \* download_book: attempt
    url,            \* download_book: position in candidates
    dlOk,           \* what download_book returned
    dlWhy,          \* the branch download_book returned from
    curHour,        \* schedule_index_for_book: partition of the body path found
    inverted,       \* build_index_from_paths: the batch's postings
    result,         \* what control_pipeline returned (valid when pc = "done")
    \* ---- history of the current call
    startDl,        \* _read_ids(DOWNLOADS) when the tick started
    startIx,        \* _read_ids(INDEXINGS) when the tick started
    snap,           \* the files when download_book was entered
    retry,          \* download_book: max_retries, the sleeps made and the
                    \* fetches that raised, in the current call
    \* ---- a ledger file exercised on its own
    lfile,          \* the ledger file
    lappended,      \* the identifiers handed to _append_id so far
    \* ---- run_pipeline: one process, from its arguments to its exit
    run,            \* args.target_new, args.max_tries, args.loop
    failed,         \* identifiers download_book gave up on for good in this run
    \* ---- whether a write of a ledger or of the index raised in the current
    \* call, and how many did so far
    ioFail,
    \* ---- _find_header_body exercised on its own
    sText,          \* the text handed to it
    sHb,            \* what it returned
    \* ---- build_index_from_paths called by two processes on one datamart
    mrg,            \* process -> its position, batch and what it has read
    \* ---- history across calls and processes
    mSaved,         \* identifier -> the record of its latest save_metadata call,
                    \* and whether MongoDB answered in that call
    completed,      \* identifiers for which download_book wrote the blobs and
                    \* returned True
    metaFailed,     \* identifiers for which a save_metadata call raised
    kills           \* how many times the process was killed

storeVars == <<dlFile, ixFile, datalake, rawDir, jsonIndex, sqlIndex, mongoIndex,
               metaDb, metaCsv, metaMongo, hour>>
argVars == <<target, total_tries>>
dlLocals == <<downloaded, new_downloaded, tries, cand, attempt, url, dlOk, dlWhy>>
ixLocals == <<ready, idx, curHour, inverted>>
histVars == <<startDl, startIx, snap, retry>>
ledgerVars == <<lfile, lappended>>
obsVars == <<mSaved, completed, metaFailed, kills>>
auxVars == <<run, failed, ioFail, sText, sHb, mrg, obsVars>>
vars == <<storeVars, pc, argVars, dlLocals, ixLocals, result, histVars, ledgerVars,
          auxVars>>

----------------------------------------------------------------------------
(* Bounds of the model *)

\* largest target_new_downloads a caller passes
MaxTarget == 2
\* largest total_tries a caller passes
MaxTries == 2
\* number of _append_id calls in the ledger specification
MaxAppends == 4
\* largest max_retries download_book is called with on its own
MaxRetryArg == 7
\* largest number of writes the file system refuses
MaxIoFailures == 2
\* largest number of lines of a text handed to _find_header_body on its own
MaxLines == 4
\* number of save_metadata calls in the metadata specification
MaxSaves == 3
\* the last time partition the clock reaches
MaxHour == 1
\* largest number of times the process is killed
MaxKills == 1
\* largest number of build_index_from_paths calls of one process in the
\* specification of concurrent merges
MaxMerges == 2

----------------------------------------------------------------------------
(* Strings of digits *)

\* the newline character written after every identifier
NL == 10
\* a whitespace character other than the newline
SP == 11

Range(s) == {s[k] : k \in 1..Len(s)}

\* str(n) for a natural number
RECURSIVE Str(_)
Str(n) == IF n < 10 THEN <<n>> ELSE Append(Str(n \div 10), n % 10)

\* int(s) for a string of digits
RECURSIVE ToInt(_)
ToInt(s) == IF Len(s) = 0 THEN 0
            ELSE ToInt(SubSeq(s, 1, Len(s) - 1)) * 10 + s[Len(s)]

\* Python's order on strings: a < b
RECURSIVE LexLess(_, _)
LexLess(a, b) ==
    IF a = <<>> THEN b # <<>>
    ELSE IF b = <<>> THEN FALSE
    ELSE IF a[1] # b[1] THEN a[1] < b[1]
    ELSE LexLess(Tail(a), Tail(b))

\* the order of the key (len(x), x)
LenLexLess(a, b) == Len(a) < Len(b) \/ (Len(a) = Len(b) /\ LexLess(a, b))

\* a mutant of SortedLex: the strings are sorted as the numbers they spell
RECURSIVE SortedNumeric(_)
SortedNumeric(S) ==
    IF S = {} THEN <<>>
    ELSE LET m == CHOOSE x \in S : \A y \in S \ {x} : LenLexLess(x, y)
         IN <<m>> \o SortedNumeric(S \ {m})

\* sorted(S) on a set of strings
RECURSIVE SortedLex(_)
SortedLex(S) ==
    IF S = {} THEN <<>>
    ELSE LET m == CHOOSE x \in S : \A y \in S \ {x} : LexLess(x, y)
         IN <<m>> \o SortedLex(S \ {m})

----------------------------------------------------------------------------
(* The control ledger: _read_ids and _append_id *)

NoFile == [exists |-> FALSE, chars |-> <<>>]

\* str.splitlines() on a text whose only line break is NL
RECURSIVE SplitLines(_)
SplitLines(s) ==
    IF s = <<>> THEN <<>>
    ELSE IF \E k \in 1..Len(s) : s[k] = NL
         THEN LET k == CHOOSE j \in 1..Len(s) :
                           s[j] = NL /\ \A h \in 1..(j - 1) : s[h] # NL
              IN <<SubSeq(s, 1, k - 1)>> \o SplitLines(SubSeq(s, k + 1, Len(s)))
         ELSE <<s>>

\* str.strip()
RECURSIVE Strip(_)
Strip(s) ==
    IF s = <<>> THEN s
    ELSE IF s[1] \in {SP, NL} THEN Strip(Tail(s))
    ELSE IF s[Len(s)] \in {SP, NL} THEN Strip(SubSeq(s, 1, Len(s) - 1))
    ELSE s

\* _read_ids(path)
ReadIds(file) ==
    IF ~file.exists THEN {}
    ELSE {Strip(l) : l \in Range(SplitLines(file.chars))} \ {<<>>}

\* a mutant of AppendId: the file is opened with "w"
AppendIdTruncating(file, id) == [exists |-> TRUE, chars |-> id \o <<NL>>]

\* a mutant of AppendId: the line break is forgotten
AppendIdNoNewline(file, id) == [exists |-> TRUE, chars |-> file.chars \o id]

\* _append_id(path, book_id)
AppendId(file, id) == [exists |-> TRUE, chars |-> file.chars \o id \o <<NL>>]

\* the lines of a ledger file, as written
LedgerLines(file) == SplitLines(file.chars)

----------------------------------------------------------------------------
(* The remote repository and the texts it serves *)

\* the identifiers random.randint draws, cut to four of them
IdSpace == {7, 12, 55, 100}

Line(k, v) == [k |-> k, v |-> v]

\* the payload published for an identifier: lines, each a labelled field, a
\* boundary marker (strict or loose), or plain words
RemoteText(id) ==
    CASE id = 7 -> <<Line("Title", <<"Moby">>), Line("text", <<>>),
                     Line("START", <<>>), Line("text", <<>>),
                     Line("text", <<"Whale", "the", "sea">>),
                     Line("END", <<>>), Line("text", <<"license">>)>>
      [] id = 100 -> <<Line("Author", <<"Ann">>), Line("ALTSTART", <<>>),
                       Line("text", <<"whale">>), Line("ALTEND", <<>>)>>
      [] id = 12 -> <<Line("Title", <<"Lost">>), Line("text", <<"whale", "sea">>)>>
      [] OTHER -> <<>>

\* which of the candidate URLs (1: .txt, 2: .txt.utf8) answers with the text;
\* 0 when both answer 404
RemoteUrl(id) ==
    CASE id = 7 -> 1
      [] id = 100 -> 2
      [] id = 12 -> 1
      [] OTHER -> 0

\* smallest position from..Len(text) of a line whose label is in kinds, else 0
FirstIdx(text, kinds, from) ==
    IF \E k \in from..Len(text) : text[k].k \in kinds
    THEN CHOOSE k \in from..Len(text) :
             text[k].k \in kinds /\ \A h \in from..(k - 1) : text[h].k \notin kinds
    ELSE 0

\* a mutant of SearchMarker: the search starts at the top of the text
SearchMarkerFromTop(text, strict, loose, from) ==
    IF FirstIdx(text, {strict}, 1) # 0 THEN FirstIdx(text, {strict}, 1)
    ELSE FirstIdx(text, {loose}, 1)

\* re.search with the strict pattern, else with the loose one
SearchMarker(text, strict, loose, from) ==
    IF FirstIdx(text, {strict}, from) # 0 THEN FirstIdx(text, {strict}, from)
    ELSE FirstIdx(text, {loose}, from)

IsBlank(l) == l.k = "text" /\ l.v = <<>>

\* str.strip() on a text: leading and trailing blank lines go
RECURSIVE StripLines(_)
StripLines(t) ==
    IF t = <<>> THEN t
    ELSE IF IsBlank(t[1]) THEN StripLines(Tail(t))
    ELSE IF IsBlank(t[Len(t)]) THEN StripLines(SubSeq(t, 1, Len(t) - 1))
    ELSE t

\* _find_header_body(text)
FindHeaderBody(text) ==
    LET s == SearchMarker(text, "START", "ALTSTART", 1)
        e == IF s = 0 THEN 0 ELSE SearchMarker(text, "END", "ALTEND", s + 1)
    IN IF s = 0 \/ e = 0
       THEN [ok |-> FALSE, header |-> <<>>, body |-> <<>>]
       ELSE [ok |-> TRUE,
             header |-> StripLines(SubSeq(text, 1, s - 1)),
             body |-> StripLines(SubSeq(text, s + 1, e - 1))]

----------------------------------------------------------------------------
(* The tokenizer *)

\* STOPWORDS_EN, cut to the words of the model's texts
STOPWORDS_EN == {"the"}

\* str.lower() and _strip_accents on the words of the model's texts
Lower(w) == CASE w = "Whale" -> "whale" [] OTHER -> w

RECURSIVE Words(_)
Words(text) == IF text = <<>> THEN <<>> ELSE text[1].v \o Words(Tail(text))

\* tokenize(text, remove_stopwords=True)
Tokenize(text) ==
    LET ws == Words(text)
        lowered == [k \in 1..Len(ws) |-> Lower(ws[k])]
    IN SelectSeq(lowered, LAMBDA w : w \notin STOPWORDS_EN)

----------------------------------------------------------------------------
(* The inverted index: JSON, SQLite and MongoDB representations *)

\* sorted() on the terms of the model's texts: their alphabetical rank
TermRank(t) ==
    CASE t = "license" -> 1
      [] t = "sea" -> 2
      [] t = "whale" -> 3
      [] OTHER -> 0

RECURSIVE SortedTerms(_)
SortedTerms(S) ==
    IF S = {} THEN <<>>
    ELSE LET m == CHOOSE x \in S : \A y \in S \ {x} : TermRank(x) < TermRank(y)
         IN <<m>> \o SortedTerms(S \ {m})

\* a mutant of PostingsLess: plain string order, key=lambda x: x
PostingsLessPlain(a, b) == LexLess(a, b)

\* the order of sorted(ids, key=lambda x: (len(x), x))
PostingsLess(a, b) == LenLexLess(a, b)

RECURSIVE SortedPostings(_)
SortedPostings(S) ==
    IF S = {} THEN <<>>
    ELSE LET m == CHOOSE x \in S : \A y \in S \ {x} : PostingsLess(x, y)
         IN <<m>> \o SortedPostings(S \ {m})

EmptyMap == [t \in {} |-> {}]

\* a mutant of LoadExistingJsonIndex: only the old dict format is read
LoadOldFormatOnly(file) == EmptyMap

\* _load_existing_json_index(json_path): term -> set of identifiers
LoadExistingJsonIndex(file) ==
    IF ~file.exists THEN EmptyMap
    ELSE LET rows == {file.rows[k] : k \in 1..Len(file.rows)}
             terms == {r.term : r \in {q \in rows : q.term # ""}}
         IN [t \in terms |->
                UNION {Range(r.postings) : r \in {q \in rows : q.term = t}}]

\* a mutant of MergeBatch: merged[term] = ids instead of merged[term].add(i)
MergeBatchOverwrite(acc, inv) ==
    [t \in DOMAIN acc \cup DOMAIN inv |-> IF t \in DOMAIN inv THEN inv[t] ELSE acc[t]]

\* build_index_from_paths, step 2: for term, ids in inverted: merged[term].add(i)
MergeBatch(acc, inv) ==
    [t \in DOMAIN acc \cup DOMAIN inv |->
        (IF t \in DOMAIN acc THEN acc[t] ELSE {}) \cup
        (IF t \in DOMAIN inv THEN inv[t] ELSE {})]

\* a mutant of DumpJsonIndex: the postings are written in plain string order
DumpJsonIndexPlainOrder(merged) ==
    LET ts == SortedTerms(DOMAIN merged)
    IN [exists |-> TRUE,
        rows |-> [k \in 1..Len(ts) |->
                     [term |-> ts[k], postings |-> SortedLex(merged[ts[k]])]]]

\* _dump_json_index(merged, json_path): the rows written
DumpJsonIndex(merged) ==
    LET ts == SortedTerms(DOMAIN merged)
    IN [exists |-> TRUE,
        rows |-> [k \in 1..Len(ts) |->
                     [term |-> ts[k], postings |-> SortedPostings(merged[ts[k]])]]]

\* build_index_from_paths, step 1, for the one path [body_path]:
\* inverted[w].add(str(book_id)) for every token of the body
BuildBatch(id, body) == [w \in Range(Tokenize(body)) |-> {Str(id)}]

\* a mutant of BuildIndexSqlite: the batch is appended to the stored postings
\* instead of united with them
BuildIndexSqliteAppends(tbl, inv) ==
    [t \in DOMAIN tbl \cup DOMAIN inv |->
        IF t \notin DOMAIN inv THEN tbl[t]
        ELSE IF t \in DOMAIN tbl
             THEN tbl[t] \o SortedPostings(inv[t])
             ELSE SortedPostings(inv[t])]

\* build_index_sqlite(inverted_index, sqlite_path): the table after the upserts
BuildIndexSqlite(tbl, inv) ==
    [t \in DOMAIN tbl \cup DOMAIN inv |->
        IF t \notin DOMAIN inv THEN tbl[t]
        ELSE IF t \in DOMAIN tbl
             THEN SortedPostings(Range(tbl[t]) \cup Range(SortedPostings(inv[t])))
             ELSE SortedPostings(inv[t])]

\* build_index_mongo: $addToSet with $each appends the identifiers not yet in
\* the array (the batch of one path holds one identifier per term)
BuildIndexMongo(col, inv) ==
    [t \in DOMAIN col \cup DOMAIN inv |->
        IF t \notin DOMAIN inv THEN col[t]
        ELSE LET old == IF t \in DOMAIN col THEN col[t] ELSE <<>>
             IN old \o SortedLex(inv[t] \ Range(old))]

----------------------------------------------------------------------------
(* Metadata *)

\* the first line carrying the label, else the empty string
FieldOf(header, label) ==
    IF FirstIdx(header, {label}, 1) = 0 THEN <<>>
    ELSE header[FirstIdx(header, {label}, 1)].v

\* extract_basic(header), with the arguments of save_metadata
MetaRecord(id, header, bodyHour) ==
    [book_id |-> id,
     title |-> FieldOf(header, "Title"),
     author |-> FieldOf(header, "Author"),
     language |-> FieldOf(header, "Language"),
     body_path |-> <<bodyHour, id>>]

\* a mutant of Upsert: INSERT OR IGNORE, the record of the first save stays
UpsertKeepFirst(tbl, rec) ==
    [k \in DOMAIN tbl \cup {rec.book_id} |-> IF k \in DOMAIN tbl THEN tbl[k] ELSE rec]

\* INSERT OR REPLACE INTO books, and update_one(..., upsert=True)
Upsert(tbl, rec) ==
    [k \in DOMAIN tbl \cup {rec.book_id} |-> IF k = rec.book_id THEN rec ELSE tbl[k]]

----------------------------------------------------------------------------
(* The datalake *)

Blob(id, h, kind, text) == [id |-> id, hour |-> h, kind |-> kind, text |-> text]

\* Path.write_text: the file of this name is created or replaced
WriteBlob(lake, id, h, kind, text) ==
    {b \in lake : ~(b.id = id /\ b.hour = h /\ b.kind = kind)}
        \cup {Blob(id, h, kind, text)}

\* datalake_root.rglob(f"{book_id}.body.txt")
BodyBlobs(id) == {b \in datalake : b.id = id /\ b.kind = "body"}

\* header_path.read_text() if header_path.exists() else ""
HeaderAt(id, h) ==
    IF \E b \in datalake : b.id = id /\ b.hour = h /\ b.kind = "header"
    THEN (CHOOSE b \in datalake : b.id = id /\ b.hour = h /\ b.kind = "header").text
    ELSE <<>>

BodyAt(id, h) ==
    (CHOOSE b \in datalake : b.id = id /\ b.hour = h /\ b.kind = "body").text

----------------------------------------------------------------------------
(* Initial state: nothing has been downloaded or indexed yet *)

NoSnap == [dl |-> NoFile, ix |-> NoFile, lake |-> {}, raw |-> {}, tries |-> 0]

\* no download_book call is going on
NoRetry == [max |-> 0, slept |-> <<>>, errs |-> 0]

\* control_pipeline is not called by run_pipeline
NoRun == [on |-> FALSE, target_new |-> 0, max_tries |-> 0, loop |-> FALSE]

\* the pipeline processes that share data/datamarts
MergeProcs == {1, 2}

\* a process that is not inside build_index_from_paths
NoMerge == [pc |-> "idle", id |-> 0, inv |-> EmptyMap, acc |-> EmptyMap,
            sel |-> [t \in {} |-> <<>>], calls |-> 0, did |-> {}]

\* _find_header_body has not returned
NoHb == [ok |-> FALSE, header |-> <<>>, body |-> <<>>]

\* the stores are empty and nothing has been called: all the variables but
\* the position, the arguments and the inputs a specification draws
InitRest ==
    /\ dlFile = NoFile
    /\ ixFile = NoFile
    /\ datalake = {}
    /\ rawDir = {}
    /\ jsonIndex = [exists |-> FALSE, rows |-> <<>>]
    /\ sqlIndex = [t \in {} |-> <<>>]
    /\ mongoIndex = [t \in {} |-> <<>>]
    /\ metaDb = [k \in {} |-> <<>>]
    /\ metaCsv = [exists |-> FALSE, rows |-> <<>>]
    /\ metaMongo = [k \in {} |-> <<>>]
    /\ hour = 0
    /\ downloaded = {}
    /\ ready = <<>>
    /\ idx = 1
    /\ new_downloaded = 0
    /\ tries = 0
    /\ attempt = 0
    /\ url = 0
    /\ dlOk = FALSE
    /\ dlWhy = "none"
    /\ curHour = 0
    /\ inverted = EmptyMap
    /\ result = FALSE
    /\ startDl = {}
    /\ startIx = {}
    /\ snap = NoSnap
    /\ lfile = NoFile
    /\ lappended = <<>>
    /\ failed = {}
    /\ ioFail = [tick |-> FALSE, total |-> 0]
    /\ sHb = NoHb
    /\ mrg = [p \in MergeProcs |-> NoMerge]
    /\ mSaved = [k \in {} |-> <<>>]
    /\ completed = {}
    /\ metaFailed = {}
    /\ kills = 0

Init ==
    /\ InitRest
    /\ pc = "idle"
    /\ target = 0
    /\ total_tries = 0
    /\ cand = 0
    /\ retry = NoRetry
    /\ run = NoRun
    /\ sText = <<>>

----------------------------------------------------------------------------
(* control_pipeline *)

\* max_retries=3, as control_pipeline calls download_book
MaxRetries == 3

\* the longest sleep between two attempts: min(60, ...)
BackoffCap == 60

\* the base of the sleep: 2 ** attempt
BackoffBase == 2

\* a mutant of Backoff: the sleep is not capped
BackoffUncapped(a) == BackoffBase ^ a

\* time.sleep(min(60, 2 ** attempt))
Backoff(a) == IF BackoffBase ^ a < BackoffCap THEN BackoffBase ^ a ELSE BackoffCap

\* downloaded - indexed
Pending(d, x) == d \ x

\* a mutant of IndexingReturn: True only if some identifier was indexed
IndexingReturnIfIndexed == ReadIds(ixFile) # startIx

\* the return of the indexing branch: return True  # progress happened
IndexingReturn == TRUE

\* a mutant of DownloadReturn: True when any attempt was made
DownloadReturnIfTried == tries > 0

\* the return after the download loop: new_downloaded > 0
DownloadReturn == new_downloaded > 0

\* the locals of a call that has returned are gone (target is kept: it is the
\* argument the returned value answers)
ClearLocals ==
    /\ total_tries' = 0
    /\ downloaded' = {}
    /\ ready' = <<>>
    /\ idx' = 1
    /\ new_downloaded' = 0
    /\ tries' = 0
    /\ cand' = 0
    /\ attempt' = 0
    /\ url' = 0
    /\ dlOk' = FALSE
    /\ dlWhy' = "none"
    /\ curHour' = 0
    /\ inverted' = EmptyMap

\* control_pipeline is entered: the ledgers are read, and the call goes to the
\* indexing branch, returns False, or goes to the download loop
StartTick(t, n) ==
    /\ pc \in {"idle", "done"}
    /\ target' = t
    /\ LET d == ReadIds(dlFile)
           x == ReadIds(ixFile)
           r == SortedLex(Pending(d, x))
       IN /\ startDl' = d
          /\ startIx' = x
          /\ snap' = NoSnap
          /\ ioFail' = [ioFail EXCEPT !.tick = FALSE]
          /\ IF r # <<>>
             THEN /\ pc' = "ix_loop"
                  /\ total_tries' = n
                  /\ downloaded' = d
                  /\ ready' = r
                  /\ idx' = 1
                  /\ UNCHANGED <<new_downloaded, tries, cand, attempt, url, dlOk,
                                 dlWhy, curHour, inverted, result>>
             ELSE IF t <= 0
             THEN /\ pc' = "done"
                  /\ result' = FALSE
                  /\ total_tries' = 0
                  /\ downloaded' = {}
                  /\ UNCHANGED <<ready, idx, new_downloaded, tries, cand, attempt,
                                 url, dlOk, dlWhy, curHour, inverted>>
             ELSE /\ pc' = "dl_loop"
                  /\ total_tries' = n
                  /\ downloaded' = d
                  /\ new_downloaded' = 0
                  /\ tries' = 0
                  /\ UNCHANGED <<ready, idx, cand, attempt, url, dlOk, dlWhy,
                                 curHour, inverted, result>>
    /\ UNCHANGED <<storeVars, ledgerVars, retry, run, failed, sText, sHb, mrg, obsVars>>

\* a mutant of IxLoop: after the last identifier the call falls through to
\* the download loop
IxLoopThenDownloads ==
    /\ pc = "ix_loop"
    /\ IF idx <= Len(ready)
       THEN /\ pc' = "ix_find"
            /\ UNCHANGED <<new_downloaded, tries>>
       ELSE /\ pc' = "dl_loop"
            /\ new_downloaded' = 0
            /\ tries' = 0
    /\ UNCHANGED <<storeVars, argVars, downloaded, cand, attempt, url, dlOk, dlWhy,
                   ixLocals, result, histVars, ledgerVars, auxVars>>

\* a mutant of IxLoop: the pass returns True after its first identifier
IxLoopStopsAfterFirst ==
    /\ pc = "ix_loop"
    /\ IF idx <= Len(ready) /\ idx = 1
       THEN /\ pc' = "ix_find"
            /\ UNCHANGED <<total_tries, result, dlLocals, ixLocals>>
       ELSE /\ pc' = "done"
            /\ result' = IndexingReturn
            /\ ClearLocals
    /\ UNCHANGED <<storeVars, target, histVars, ledgerVars, auxVars>>

\* for bid in ready_to_index: the next identifier, or return True
IxLoop ==
    /\ pc = "ix_loop"
    /\ IF idx <= Len(ready)
       THEN /\ pc' = "ix_find"
            /\ UNCHANGED <<total_tries, result, dlLocals, ixLocals>>
       ELSE /\ pc' = "done"
            /\ result' = IndexingReturn
            /\ ClearLocals
    /\ UNCHANGED <<storeVars, target, histVars, ledgerVars, auxVars>>

\* schedule_index_for_book: rglob finds a body path, or the call returns False
\* and the identifier is skipped
IxFind ==
    /\ pc = "ix_find"
    /\ LET id == ToInt(ready[idx])
       IN IF BodyBlobs(id) = {}
          THEN /\ pc' = "ix_loop"
               /\ idx' = idx + 1
               /\ UNCHANGED curHour
          ELSE \E b \in BodyBlobs(id) :
                  /\ pc' = "ix_read"
                  /\ curHour' = b.hour
                  /\ UNCHANGED idx
    /\ UNCHANGED <<storeVars, argVars, dlLocals, ready, inverted, result, histVars,
                   ledgerVars, auxVars>>

\* body_path.read_text and header_path.read_text succeed
IxRead ==
    /\ pc = "ix_read"
    /\ pc' = "ix_meta"
    /\ UNCHANGED <<storeVars, argVars, dlLocals, ixLocals, result, histVars, ledgerVars, auxVars>>

\* a mutant of IxReadRaises: the identifier is recorded although the attempt
\* raised
IxReadRaisesMarksIndexed ==
    /\ pc = "ix_read"
    /\ pc' = "ix_loop"
    /\ idx' = idx + 1
    /\ ixFile' = AppendId(ixFile, ready[idx])
    /\ UNCHANGED <<dlFile, datalake, rawDir, jsonIndex, sqlIndex, mongoIndex, metaDb,
                   metaCsv, metaMongo, hour, argVars, dlLocals, ready, curHour,
                   inverted, result, histVars, ledgerVars, auxVars>>

\* body_path.read_text raises: control_pipeline logs the exception and goes on
IxReadRaises ==
    /\ pc = "ix_read"
    /\ pc' = "ix_loop"
    /\ idx' = idx + 1
    /\ UNCHANGED <<storeVars, argVars, dlLocals, ready, curHour, inverted, result,
                   histVars, ledgerVars, auxVars>>

\* save_metadata(book_id, meta, body_path): INSERT OR REPLACE in SQLite, one
\* more row at the end of the CSV, and, when MongoDB is reachable, update_one
\* with upsert=True (an error of MongoDB is logged and nothing is written)
SaveMetadata(rec, mongoUp) ==
    /\ metaDb' = Upsert(metaDb, rec)
    /\ metaCsv' = [exists |-> TRUE, rows |-> Append(metaCsv.rows, rec)]
    /\ metaMongo' = IF mongoUp THEN Upsert(metaMongo, rec) ELSE metaMongo
    /\ mSaved' = [k \in DOMAIN mSaved \cup {rec.book_id} |->
                     IF k = rec.book_id THEN [rec |-> rec, up |-> mongoUp]
                     ELSE mSaved[k]]

\* a mutant of IxMeta: the metadata is extracted and not saved
IxMetaNotSaved(mongoUp) ==
    /\ pc = "ix_meta"
    /\ pc' = "ix_build"
    /\ UNCHANGED <<storeVars, argVars, dlLocals, ixLocals, result, histVars,
                   ledgerVars, auxVars>>

\* extract_metadata_for_book: extract_basic(header), then save_metadata
IxMeta(mongoUp) ==
    /\ pc = "ix_meta"
    /\ LET id == ToInt(ready[idx])
       IN SaveMetadata(MetaRecord(id, HeaderAt(id, curHour), curHour), mongoUp)
    /\ pc' = "ix_build"
    /\ UNCHANGED <<dlFile, ixFile, datalake, rawDir, jsonIndex, sqlIndex, mongoIndex,
                   hour, argVars, dlLocals, ixLocals, result, histVars, ledgerVars,
                   run, failed, ioFail, sText, sHb, mrg, completed, metaFailed, kills>>

\* build_index_from_paths, step 1: the postings of this batch
IxBuild ==
    /\ pc = "ix_build"
    /\ inverted' = BuildBatch(ToInt(ready[idx]), BodyAt(ToInt(ready[idx]), curHour))
    /\ pc' = "ix_json"
    /\ UNCHANGED <<storeVars, argVars, dlLocals, ready, idx, curHour, result,
                   histVars, ledgerVars, auxVars>>

\* build_index_from_paths, steps 2 and 3: load, merge and dump the JSON index
IxJson ==
    /\ pc = "ix_json"
    /\ jsonIndex' = DumpJsonIndex(MergeBatch(LoadExistingJsonIndex(jsonIndex), inverted))
    /\ pc' = "ix_sqlite"
    /\ UNCHANGED <<dlFile, ixFile, datalake, rawDir, sqlIndex, mongoIndex, metaDb,
                   metaCsv, metaMongo, hour, argVars, dlLocals, ixLocals, result,
                   histVars, ledgerVars, auxVars>>

\* build_index_from_paths, step 4: build_index_sqlite
IxSqlite ==
    /\ pc = "ix_sqlite"
    /\ sqlIndex' = BuildIndexSqlite(sqlIndex, inverted)
    /\ pc' = "ix_mongo"
    /\ UNCHANGED <<dlFile, ixFile, datalake, rawDir, jsonIndex, mongoIndex, metaDb,
                   metaCsv, metaMongo, hour, argVars, dlLocals, ixLocals, result,
                   histVars, ledgerVars, auxVars>>

\* a mutant of IxMongo: the error of an unreachable MongoDB is not caught, and
\* control_pipeline goes on with the next identifier
IxMongoFailureRaises(mongoUp) ==
    /\ pc = "ix_mongo"
    /\ IF mongoUp
       THEN /\ mongoIndex' = BuildIndexMongo(mongoIndex, inverted)
            /\ pc' = "ix_append"
            /\ UNCHANGED idx
       ELSE /\ pc' = "ix_loop"
            /\ idx' = idx + 1
            /\ UNCHANGED mongoIndex
    /\ UNCHANGED <<dlFile, ixFile, datalake, rawDir, jsonIndex, sqlIndex, metaDb,
                   metaCsv, metaMongo, hour, argVars, dlLocals, ready, curHour,
                   inverted, result, histVars, ledgerVars, auxVars>>

\* build_index_from_paths, step 4: build_index_mongo, which returns False when
\* MongoDB is missing or unreachable
IxMongo(mongoUp) ==
    /\ pc = "ix_mongo"
    /\ mongoIndex' = IF mongoUp THEN BuildIndexMongo(mongoIndex, inverted) ELSE mongoIndex
    /\ pc' = "ix_append"
    /\ UNCHANGED <<dlFile, ixFile, datalake, rawDir, jsonIndex, sqlIndex, metaDb,
                   metaCsv, metaMongo, hour, argVars, dlLocals, ixLocals, result,
                   histVars, ledgerVars, auxVars>>

\* schedule_index_for_book returned True: _append_id(INDEXINGS, bid)
IxAppend ==
    /\ pc = "ix_append"
    /\ ixFile' = AppendId(ixFile, ready[idx])
    /\ idx' = idx + 1
    /\ pc' = "ix_loop"
    /\ UNCHANGED <<dlFile, datalake, rawDir, jsonIndex, sqlIndex, mongoIndex, metaDb,
                   metaCsv, metaMongo, hour, argVars, dlLocals, ready, curHour,
                   inverted, result, histVars, ledgerVars, auxVars>>

----------------------------------------------------------------------------
(* The download loop of control_pipeline, and download_book *)

\* a mutant of AlreadyDownloaded: the check is left out
AlreadyDownloadedNever(c) == FALSE

\* if candidate_id in downloaded: continue
AlreadyDownloaded(c) == Str(c) \in downloaded

\* a mutant of LoopGoesOn: the loop goes on until both bounds are reached
LoopGoesOnEither == new_downloaded < target \/ tries < total_tries

\* while new_downloaded < target_new_downloads and tries < total_tries
LoopGoesOn == new_downloaded < target /\ tries < total_tries

\* the while loop goes round: a candidate is drawn; one already in
\* 'downloaded' is skipped, any other is handed to download_book
DlDraw(c) ==
    /\ pc = "dl_loop"
    /\ LoopGoesOn
    /\ tries' = tries + 1
    /\ cand' = c
    /\ IF AlreadyDownloaded(c)
       THEN /\ pc' = "dl_loop"
            /\ UNCHANGED <<snap, retry>>
       ELSE /\ pc' = "dl_check"
            /\ snap' = [dl |-> dlFile, ix |-> ixFile, lake |-> datalake, raw |-> rawDir,
                        tries |-> tries]
            /\ retry' = [max |-> MaxRetries, slept |-> <<>>, errs |-> 0]
    /\ UNCHANGED <<storeVars, argVars, downloaded, new_downloaded, attempt, url, dlOk,
                   dlWhy, ixLocals, result, startDl, startIx, ledgerVars, auxVars>>

\* the while loop ends: return new_downloaded > 0
DlExit ==
    /\ pc = "dl_loop"
    /\ ~LoopGoesOn
    /\ pc' = "done"
    /\ result' = DownloadReturn
    /\ ClearLocals
    /\ UNCHANGED <<storeVars, target, histVars, ledgerVars, auxVars>>

\* download_book returns
DlReturn(ok, why) ==
    /\ pc' = "dl_back"
    /\ dlOk' = ok
    /\ dlWhy' = why

\* download_book starts: an identifier already in the ledger file is done;
\* for attempt in range(1, max_retries + 1) is empty when max_retries < 1
DlCheck ==
    /\ pc = "dl_check"
    /\ IF Str(cand) \in ReadIds(dlFile)
       THEN /\ DlReturn(TRUE, "Already")
            /\ UNCHANGED <<attempt, url>>
       ELSE IF retry.max < 1
       THEN /\ DlReturn(FALSE, "Exhausted")
            /\ UNCHANGED <<attempt, url>>
       ELSE /\ pc' = "dl_fetch"
            /\ attempt' = 1
            /\ url' = 1
            /\ UNCHANGED <<dlOk, dlWhy>>
    /\ UNCHANGED <<storeVars, argVars, downloaded, new_downloaded, tries, cand,
                   ixLocals, result, histVars, ledgerVars, auxVars>>

\* _fetch_text(url) returns the text
DlFetchText ==
    /\ pc = "dl_fetch"
    /\ RemoteUrl(cand) = url
    /\ pc' = "dl_split"
    /\ UNCHANGED <<storeVars, argVars, dlLocals, ixLocals, result, histVars, ledgerVars, auxVars>>

\* a mutant of DlFetch404: a 404 of the last candidate URL is handled as a
\* failed attempt (sleep, then the next attempt)
DlFetch404Retries ==
    /\ pc = "dl_fetch"
    /\ RemoteUrl(cand) # url
    /\ IF url < 2
       THEN /\ url' = url + 1
            /\ UNCHANGED <<pc, dlOk, dlWhy, attempt, retry>>
       ELSE /\ retry' = [retry EXCEPT !.slept = Append(@, Backoff(attempt))]
            /\ IF attempt < retry.max
               THEN /\ attempt' = attempt + 1
                    /\ url' = 1
                    /\ UNCHANGED <<pc, dlOk, dlWhy>>
               ELSE /\ DlReturn(FALSE, "Exhausted")
                    /\ UNCHANGED <<attempt, url>>
    /\ UNCHANGED <<storeVars, argVars, downloaded, new_downloaded, tries, cand,
                   ixLocals, result, startDl, startIx, snap, ledgerVars, auxVars>>

\* _fetch_text(url) returns None (404): the next candidate URL is tried, and
\* after the last one download_book returns False
DlFetch404 ==
    /\ pc = "dl_fetch"
    /\ RemoteUrl(cand) # url
    /\ IF url < 2
       THEN /\ url' = url + 1
            /\ UNCHANGED <<pc, dlOk, dlWhy>>
       ELSE /\ DlReturn(FALSE, "NotFound")
            /\ UNCHANGED url
    /\ UNCHANGED <<storeVars, argVars, downloaded, new_downloaded, tries, cand,
                   attempt, ixLocals, result, histVars, ledgerVars, auxVars>>

\* _fetch_text(url) raises requests.RequestException: sleep, then the next
\* attempt, and after max_retries attempts (and the sleep of the last one)
\* download_book returns False
DlFetchRaises ==
    /\ pc = "dl_fetch"
    /\ retry' = [retry EXCEPT !.slept = Append(@, Backoff(attempt)), !.errs = @ + 1]
    /\ IF attempt < retry.max
       THEN /\ attempt' = attempt + 1
            /\ url' = 1
            /\ UNCHANGED <<pc, dlOk, dlWhy>>
       ELSE /\ DlReturn(FALSE, "Exhausted")
            /\ UNCHANGED <<attempt, url>>
    /\ UNCHANGED <<storeVars, argVars, downloaded, new_downloaded, tries, cand,
                   ixLocals, result, startDl, startIx, snap, ledgerVars, auxVars>>

\* a mutant of DlSplit: the raw text is saved before the markers are looked for
DlSplitRawFirst ==
    /\ pc = "dl_split"
    /\ rawDir' = {r \in rawDir : r.id # cand} \cup {[id |-> cand, text |-> RemoteText(cand)]}
    /\ IF ~FindHeaderBody(RemoteText(cand)).ok
       THEN DlReturn(FALSE, "Unrecognized")
       ELSE /\ pc' = "dl_body"
            /\ UNCHANGED <<dlOk, dlWhy>>
    /\ UNCHANGED <<dlFile, ixFile, datalake, jsonIndex, sqlIndex, mongoIndex, metaDb,
                   metaCsv, metaMongo, hour, argVars, downloaded, new_downloaded,
                   tries, cand, attempt, url, ixLocals, result, histVars, ledgerVars, auxVars>>

\* a mutant of DlSplit: a text without markers is handled as a failed attempt
DlSplitRetries ==
    /\ pc = "dl_split"
    /\ IF ~FindHeaderBody(RemoteText(cand)).ok
       THEN IF attempt < retry.max
            THEN /\ pc' = "dl_fetch"
                 /\ attempt' = attempt + 1
                 /\ url' = 1
                 /\ UNCHANGED <<dlOk, dlWhy>>
            ELSE /\ DlReturn(FALSE, "Exhausted")
                 /\ UNCHANGED <<attempt, url>>
       ELSE /\ pc' = "dl_body"
            /\ UNCHANGED <<dlOk, dlWhy, attempt, url>>
    /\ UNCHANGED <<storeVars, argVars, downloaded, new_downloaded, tries, cand,
                   ixLocals, result, histVars, ledgerVars, auxVars>>

\* _find_header_body(text): without both markers download_book returns False
DlSplit ==
    /\ pc = "dl_split"
    /\ IF ~FindHeaderBody(RemoteText(cand)).ok
       THEN DlReturn(FALSE, "Unrecognized")
       ELSE /\ pc' = "dl_body"
            /\ UNCHANGED <<dlOk, dlWhy>>
    /\ UNCHANGED <<storeVars, argVars, downloaded, new_downloaded, tries, cand,
                   attempt, url, ixLocals, result, histVars, ledgerVars, auxVars>>

\* body_path.write_text(body)
DlWriteBody ==
    /\ pc = "dl_body"
    /\ datalake' = WriteBlob(datalake, cand, hour, "body",
                             FindHeaderBody(RemoteText(cand)).body)
    /\ pc' = "dl_header"
    /\ UNCHANGED <<dlFile, ixFile, rawDir, jsonIndex, sqlIndex, mongoIndex, metaDb,
                   metaCsv, metaMongo, hour, argVars, dlLocals, ixLocals, result,
                   histVars, ledgerVars, auxVars>>

\* a mutant of DlWriteHeader: the header blob is not written
DlWriteHeaderSkipped ==
    /\ pc = "dl_header"
    /\ pc' = "dl_raw"
    /\ UNCHANGED <<storeVars, argVars, dlLocals, ixLocals, result,
                   histVars, ledgerVars, auxVars>>

\* header_path.write_text(header)
DlWriteHeader ==
    /\ pc = "dl_header"
    /\ datalake' = WriteBlob(datalake, cand, hour, "header",
                             FindHeaderBody(RemoteText(cand)).header)
    /\ pc' = "dl_raw"
    /\ UNCHANGED <<dlFile, ixFile, rawDir, jsonIndex, sqlIndex, mongoIndex, metaDb,
                   metaCsv, metaMongo, hour, argVars, dlLocals, ixLocals, result,
                   histVars, ledgerVars, auxVars>>

\* (alt_raw_root / f"{book_id}.txt").write_text(text)
DlWriteRaw ==
    /\ pc = "dl_raw"
    /\ rawDir' = {r \in rawDir : r.id # cand} \cup {[id |-> cand, text |-> RemoteText(cand)]}
    /\ pc' = "dl_ledger"
    /\ UNCHANGED <<dlFile, ixFile, datalake, jsonIndex, sqlIndex, mongoIndex, metaDb,
                   metaCsv, metaMongo, hour, argVars, dlLocals, ixLocals, result,
                   histVars, ledgerVars, auxVars>>

\* a mutant of DlLedger: download_book returns True and leaves the append to
\* control_pipeline
DlLedgerReturnsOnly ==
    /\ pc = "dl_ledger"
    /\ DlReturn(TRUE, "Saved")
    /\ completed' = completed \cup {cand}
    /\ UNCHANGED <<storeVars, argVars, downloaded, new_downloaded,
                   tries, cand, attempt, url, ixLocals, result, histVars, ledgerVars,
                   run, failed, ioFail, sText, sHb, mrg, mSaved, metaFailed, kills>>

\* download_book appends the identifier to downloaded_books.txt, returns True
DlLedger ==
    /\ pc = "dl_ledger"
    /\ dlFile' = [exists |-> TRUE, chars |-> dlFile.chars \o Str(cand) \o <<NL>>]
    /\ DlReturn(TRUE, "Saved")
    /\ completed' = completed \cup {cand}
    /\ UNCHANGED <<ixFile, datalake, rawDir, jsonIndex, sqlIndex, mongoIndex, metaDb,
                   metaCsv, metaMongo, hour, argVars, downloaded, new_downloaded,
                   tries, cand, attempt, url, ixLocals, result, histVars, ledgerVars,
                   run, failed, ioFail, sText, sHb, mrg, mSaved, metaFailed, kills>>

\* the failures of download_book that say the identifier has no usable text
Permanent == {"NotFound", "Unrecognized"}

\* a mutant of DlBack: a failed download ends the while loop
DlBackFailureBreaks ==
    /\ pc = "dl_back"
    /\ IF dlOk
       THEN /\ downloaded' = downloaded \cup {Str(cand)}
            /\ dlFile' = AppendId(dlFile, Str(cand))
            /\ new_downloaded' = new_downloaded + 1
       ELSE UNCHANGED <<downloaded, dlFile, new_downloaded>>
    /\ pc' = "dl_loop"
    /\ tries' = IF dlOk THEN tries ELSE total_tries
    /\ attempt' = 0
    /\ url' = 0
    /\ dlOk' = FALSE
    /\ dlWhy' = "none"
    /\ snap' = NoSnap
    /\ retry' = NoRetry
    /\ failed' = IF run.on /\ ~dlOk /\ dlWhy \in Permanent
                 THEN failed \cup {cand}
                 ELSE failed
    /\ UNCHANGED <<ixFile, datalake, rawDir, jsonIndex, sqlIndex, mongoIndex, metaDb,
                   metaCsv, metaMongo, hour, argVars, cand, ixLocals, result,
                   startDl, startIx, ledgerVars, run, ioFail, sText, sHb, mrg, obsVars>>

\* back in control_pipeline: if ok, downloaded.add, _append_id(DOWNLOADS, ...)
DlBack ==
    /\ pc = "dl_back"
    /\ IF dlOk
       THEN /\ downloaded' = downloaded \cup {Str(cand)}
            /\ dlFile' = AppendId(dlFile, Str(cand))
            /\ new_downloaded' = new_downloaded + 1
       ELSE UNCHANGED <<downloaded, dlFile, new_downloaded>>
    /\ pc' = "dl_loop"
    /\ attempt' = 0
    /\ url' = 0
    /\ dlOk' = FALSE
    /\ dlWhy' = "none"
    /\ snap' = NoSnap
    /\ retry' = NoRetry
    /\ failed' = IF run.on /\ ~dlOk /\ dlWhy \in Permanent
                 THEN failed \cup {cand}
                 ELSE failed
    /\ UNCHANGED <<ixFile, datalake, rawDir, jsonIndex, sqlIndex, mongoIndex, metaDb,
                   metaCsv, metaMongo, hour, argVars, tries, cand, ixLocals, result,
                   startDl, startIx, ledgerVars, run, ioFail, sText, sHb, mrg, obsVars>>

----------------------------------------------------------------------------
(* The environment between two calls *)

\* the blobs of an identifier are not under the datalake root of the next call
\* (they were moved or deleted, or another --datalake is passed)
BlobsGone(id) ==
    /\ pc \in {"idle", "done"}
    /\ \E b \in datalake : b.id = id
    /\ datalake' = {b \in datalake : b.id # id}
    /\ UNCHANGED <<dlFile, ixFile, rawDir, jsonIndex, sqlIndex, mongoIndex, metaDb,
                   metaCsv, metaMongo, hour, pc, argVars, dlLocals, ixLocals, result,
                   histVars, ledgerVars, auxVars>>

----------------------------------------------------------------------------
(* The specification of the control loop *)

Next ==
    \/ \E t \in (0 - 1)..MaxTarget, n \in 0..MaxTries : StartTick(t, n)
    \/ IxLoop
    \/ IxFind
    \/ IxRead
    \/ IxReadRaises
    \/ \E up \in BOOLEAN : IxMeta(up)
    \/ IxBuild
    \/ IxJson
    \/ IxSqlite
    \/ \E up \in BOOLEAN : IxMongo(up)
    \/ IxAppend
    \/ \E c \in IdSpace : DlDraw(c)
    \/ DlExit
    \/ DlCheck
    \/ DlFetchText
    \/ DlFetch404
    \/ DlFetchRaises
    \/ DlSplit
    \/ DlWriteBody
    \/ DlWriteHeader
    \/ DlWriteRaw
    \/ DlLedger
    \/ DlBack
    \/ \E id \in IdSpace : BlobsGone(id)

Spec == Init /\ [][Next]_vars

----------------------------------------------------------------------------
(* The specification of a ledger file on its own: any sequence of _append_id *)

LedgerAppend(id) ==
    /\ Len(lappended) < MaxAppends
    /\ lfile' = AppendId(lfile, Str(id))
    /\ lappended' = Append(lappended, Str(id))
    /\ UNCHANGED <<storeVars, pc, argVars, dlLocals, ixLocals, result, histVars, auxVars>>

LedgerNext == \E id \in IdSpace : LedgerAppend(id)

SpecLedger == Init /\ [][LedgerNext]_vars

----------------------------------------------------------------------------
(* The specification of the control loop on a file system that can refuse a
   write of a ledger or of the JSON index (the body files stay readable and
   MongoDB reachable) *)

\* _dump_json_index raises (the file cannot be opened for writing): the
\* exception leaves build_index_from_paths and schedule_index_for_book, and
\* control_pipeline logs it and goes on
IxJsonRaises ==
    /\ pc = "ix_json"
    /\ pc' = "ix_loop"
    /\ idx' = idx + 1
    /\ ioFail.total < MaxIoFailures
    /\ ioFail' = [tick |-> TRUE, total |-> ioFail.total + 1]
    /\ UNCHANGED <<storeVars, argVars, dlLocals, ready, curHour, inverted, result,
                   histVars, ledgerVars, run, failed, sText, sHb, mrg, obsVars>>

\* _append_id(INDEXINGS, bid) raises: control_pipeline logs it and goes on
IxAppendRaises ==
    /\ pc = "ix_append"
    /\ pc' = "ix_loop"
    /\ idx' = idx + 1
    /\ ioFail.total < MaxIoFailures
    /\ ioFail' = [tick |-> TRUE, total |-> ioFail.total + 1]
    /\ UNCHANGED <<storeVars, argVars, dlLocals, ready, curHour, inverted, result,
                   histVars, ledgerVars, run, failed, sText, sHb, mrg, obsVars>>

\* the append of download_book to downloaded_books.txt raises: except
\* Exception sleeps, then the next attempt, and after max_retries attempts
\* download_book returns False
DlLedgerRaises ==
    /\ pc = "dl_ledger"
    /\ ioFail.total < MaxIoFailures
    /\ ioFail' = [tick |-> TRUE, total |-> ioFail.total + 1]
    /\ retry' = [retry EXCEPT !.slept = Append(@, Backoff(attempt))]
    /\ IF attempt < retry.max
       THEN /\ pc' = "dl_fetch"
            /\ attempt' = attempt + 1
            /\ url' = 1
            /\ UNCHANGED <<dlOk, dlWhy>>
       ELSE /\ DlReturn(FALSE, "Exhausted")
            /\ UNCHANGED <<attempt, url>>
    /\ UNCHANGED <<storeVars, argVars, downloaded, new_downloaded, tries, cand,
                   ixLocals, result, startDl, startIx, snap, ledgerVars, run, failed,
                   sText, sHb, mrg, obsVars>>

\* _append_id(DOWNLOADS, candidate_id) of control_pipeline raises: nothing
\* catches it, and the exception leaves control_pipeline
DlBackAppendRaises ==
    /\ pc = "dl_back"
    /\ dlOk
    /\ pc' = "raised"
    /\ ioFail.total < MaxIoFailures
    /\ ioFail' = [tick |-> TRUE, total |-> ioFail.total + 1]
    /\ ClearLocals
    /\ snap' = NoSnap
    /\ retry' = NoRetry
    /\ UNCHANGED <<storeVars, target, result, startDl, startIx, ledgerVars, run,
                   failed, sText, sHb, mrg, obsVars>>

\* the process has died of the exception; control_pipeline is called anew
Restart ==
    /\ pc = "raised"
    /\ pc' = "idle"
    /\ UNCHANGED <<storeVars, argVars, dlLocals, ixLocals, result, histVars,
                   ledgerVars, auxVars>>

NextIO ==
    \/ \E t \in (0 - 1)..MaxTarget, n \in 0..MaxTries : StartTick(t, n)
    \/ IxLoop
    \/ IxFind
    \/ IxRead
    \/ IxMeta(TRUE)
    \/ IxBuild
    \/ IxJson
    \/ IxJsonRaises
    \/ IxSqlite
    \/ IxMongo(TRUE)
    \/ IxAppend
    \/ IxAppendRaises
    \/ \E c \in IdSpace : DlDraw(c)
    \/ DlExit
    \/ DlCheck
    \/ DlFetchText
    \/ DlFetch404
    \/ DlFetchRaises
    \/ DlSplit
    \/ DlWriteBody
    \/ DlWriteHeader
    \/ DlWriteRaw
    \/ DlLedger
    \/ DlLedgerRaises
    \/ DlBack
    \/ DlBackAppendRaises
    \/ Restart

SpecIO == Init /\ [][NextIO]_vars

----------------------------------------------------------------------------
(* The specification of download_book on its own: one call, for any book_id
   and any max_retries *)

InitRetry ==
    /\ InitRest
    /\ pc = "dl_check"
    /\ target = 0
    /\ total_tries = 0
    /\ cand \in IdSpace
    /\ \E m \in 0..MaxRetryArg : retry = [max |-> m, slept |-> <<>>, errs |-> 0]
    /\ run = NoRun
    /\ sText = <<>>

NextRetry ==
    \/ DlCheck
    \/ DlFetchText
    \/ DlFetch404
    \/ DlFetchRaises
    \/ DlSplit
    \/ DlWriteBody
    \/ DlWriteHeader
    \/ DlWriteRaw
    \/ DlLedger

SpecRetry == InitRetry /\ [][NextRetry]_vars

----------------------------------------------------------------------------
(* The specification of the download loop of one tick, from its first test of
   the while condition to the return, for any target and any total_tries *)

InitBurst ==
    /\ InitRest
    /\ pc = "dl_loop"
    /\ target \in 1..MaxTarget
    /\ total_tries \in 0..MaxTries
    /\ cand = 0
    /\ retry = NoRetry
    /\ run = NoRun
    /\ sText = <<>>

NextBurst ==
    \/ \E c \in IdSpace : DlDraw(c)
    \/ DlExit
    \/ DlCheck
    \/ DlFetchText
    \/ DlFetch404
    \/ DlFetchRaises
    \/ DlSplit
    \/ DlWriteBody
    \/ DlWriteHeader
    \/ DlWriteRaw
    \/ DlLedger
    \/ DlBack

\* the process keeps running: every request ends (by its answer or by its
\* timeout) and every sleep ends
SpecBurst == InitBurst /\ [][NextBurst]_vars /\ WF_vars(NextBurst)

----------------------------------------------------------------------------
(* The specification of run_pipeline: one process, which calls
   control_pipeline with the same arguments once, or with --loop until a call
   returns False *)

InitLoop ==
    /\ InitRest
    /\ pc = "idle"
    /\ target = 0
    /\ total_tries = 0
    /\ cand = 0
    /\ retry = NoRetry
    /\ sText = <<>>
    /\ \E t \in (0 - 1)..MaxTarget, n \in 0..MaxTries, l \in BOOLEAN :
          run = [on |-> TRUE, target_new |-> t, max_tries |-> n, loop |-> l]

\* progress = control_pipeline(target_new_downloads=args.target_new, ...,
\* total_tries=args.max_tries): the first call, and with --loop the next one
\* after a call that returned True
RunTick ==
    /\ run.on
    /\ pc = "idle" \/ (pc = "done" /\ run.loop /\ result)
    /\ StartTick(run.target_new, run.max_tries)

\* if not args.loop or not progress: break
RunBreak ==
    /\ run.on
    /\ pc = "done"
    /\ ~run.loop \/ ~result
    /\ pc' = "finished"
    /\ UNCHANGED <<storeVars, argVars, dlLocals, ixLocals, result, histVars,
                   ledgerVars, auxVars>>

NextLoop ==
    \/ RunTick
    \/ RunBreak
    \/ IxLoop
    \/ IxFind
    \/ IxRead
    \/ IxReadRaises
    \/ \E up \in BOOLEAN : IxMeta(up)
    \/ IxBuild
    \/ IxJson
    \/ IxSqlite
    \/ \E up \in BOOLEAN : IxMongo(up)
    \/ IxAppend
    \/ \E c \in IdSpace : DlDraw(c)
    \/ DlExit
    \/ DlCheck
    \/ DlFetchText
    \/ DlFetch404
    \/ DlFetchRaises
    \/ DlSplit
    \/ DlWriteBody
    \/ DlWriteHeader
    \/ DlWriteRaw
    \/ DlLedger
    \/ DlBack
    \/ \E id \in IdSpace : BlobsGone(id)

SpecLoop == InitLoop /\ [][NextLoop]_vars

\* the process keeps running: a step that can be taken is taken (every
\* request has a timeout, every sleep ends)
SpecLoopFair == SpecLoop /\ WF_vars(NextLoop)

----------------------------------------------------------------------------
(* The specification of _find_header_body on its own: one call, for any text
   of up to MaxLines lines *)

\* the lines a text is made of: the four boundary markers, a blank line and a
\* line of words
LineAlphabet ==
    {Line("START", <<>>), Line("ALTSTART", <<>>), Line("END", <<>>),
     Line("ALTEND", <<>>), Line("text", <<>>), Line("text", <<"whale">>)}

InitSplit ==
    /\ InitRest
    /\ pc = "split"
    /\ target = 0
    /\ total_tries = 0
    /\ cand = 0
    /\ retry = NoRetry
    /\ run = NoRun
    /\ \E n \in 0..MaxLines : sText \in [1..n -> LineAlphabet]

\* hb = _find_header_body(text)
SplitApply ==
    /\ pc = "split"
    /\ sHb' = FindHeaderBody(sText)
    /\ pc' = "split_done"
    /\ UNCHANGED <<storeVars, argVars, dlLocals, ixLocals, result, histVars,
                   ledgerVars, run, failed, ioFail, sText, mrg, obsVars>>

NextSplit == SplitApply

SpecSplit == InitSplit /\ [][NextSplit]_vars

----------------------------------------------------------------------------
(* The specification of the control loop in a process that can be killed at
   any point of a tick and started again.
   A kill keeps the files as they are; a file that was being rewritten
   (open(path, "w"), then the writes) may be left truncated.  An append of one
   line to a ledger is a single write and is not cut. *)

\* the positions of control_pipeline in its indexing pass
IxPcs == {"ix_loop", "ix_find", "ix_read", "ix_meta", "ix_build", "ix_json",
          "ix_sqlite", "ix_mongo", "ix_append"}

\* the positions of control_pipeline in its download loop
DlPcs == {"dl_loop", "dl_check", "dl_fetch", "dl_split", "dl_body", "dl_header",
          "dl_raw", "dl_ledger", "dl_back"}

\* what open(path, "w") leaves of the JSON index before json.dump has written
TruncatedIndex == [exists |-> TRUE, rows |-> <<>>]

\* the process is killed (SIGKILL; what it wrote stays written); partial tells
\* whether the file being rewritten at that point was already opened for
\* writing
Kill(partial) ==
    /\ pc \in IxPcs \cup DlPcs
    /\ kills < MaxKills
    /\ kills' = kills + 1
    /\ partial => pc \in {"ix_json", "dl_body", "dl_header", "dl_raw"}
    /\ jsonIndex' = IF partial /\ pc = "ix_json" THEN TruncatedIndex ELSE jsonIndex
    /\ datalake' = IF partial /\ pc = "dl_body"
                   THEN WriteBlob(datalake, cand, hour, "body", <<>>)
                   ELSE IF partial /\ pc = "dl_header"
                   THEN WriteBlob(datalake, cand, hour, "header", <<>>)
                   ELSE datalake
    /\ rawDir' = IF partial /\ pc = "dl_raw"
                 THEN {r \in rawDir : r.id # cand} \cup {[id |-> cand, text |-> <<>>]}
                 ELSE rawDir
    /\ pc' = "idle"
    /\ target' = 0
    /\ ClearLocals
    /\ snap' = NoSnap
    /\ retry' = NoRetry
    /\ UNCHANGED <<dlFile, ixFile, sqlIndex, mongoIndex, metaDb, metaCsv, metaMongo,
                   hour, result, startDl, startIx, ledgerVars, run, failed, ioFail,
                   sText, sHb, mrg, mSaved, completed, metaFailed>>

\* datetime.utcnow() of the next call falls in the next time partition
ClockTick ==
    /\ pc \in {"idle", "done"}
    /\ hour < MaxHour
    /\ hour' = hour + 1
    /\ UNCHANGED <<dlFile, ixFile, datalake, rawDir, jsonIndex, sqlIndex, mongoIndex,
                   metaDb, metaCsv, metaMongo, pc, argVars, dlLocals, ixLocals, result,
                   histVars, ledgerVars, auxVars>>

NextCrash ==
    \/ \E t \in (0 - 1)..MaxTarget, n \in 0..MaxTries : StartTick(t, n)
    \/ IxLoop
    \/ IxFind
    \/ IxRead
    \/ IxMeta(TRUE)
    \/ IxBuild
    \/ IxJson
    \/ IxSqlite
    \/ IxMongo(TRUE)
    \/ IxAppend
    \/ \E c \in IdSpace : DlDraw(c)
    \/ DlExit
    \/ DlCheck
    \/ DlFetchText
    \/ DlFetch404
    \/ DlFetchRaises
    \/ DlSplit
    \/ DlWriteBody
    \/ DlWriteHeader
    \/ DlWriteRaw
    \/ DlLedger
    \/ DlBack
    \/ \E partial \in BOOLEAN : Kill(partial)

SpecCrash == Init /\ [][NextCrash]_vars

\* the same, with restarts that may fall in a later time partition
NextCrashClock ==
    \/ NextCrash
    \/ ClockTick

SpecCrashClock == Init /\ [][NextCrashClock]_vars

----------------------------------------------------------------------------
(* The specification of the control loop while the blobs stay readable: no
   blob leaves the datalake and no read of a body file raises.  MongoDB may
   answer or not. *)

NextCalm ==
    \/ \E t \in (0 - 1)..MaxTarget, n \in 0..MaxTries : StartTick(t, n)
    \/ IxLoop
    \/ IxFind
    \/ IxRead
    \/ \E up \in BOOLEAN : IxMeta(up)
    \/ IxBuild
    \/ IxJson
    \/ IxSqlite
    \/ \E up \in BOOLEAN : IxMongo(up)
    \/ IxAppend
    \/ \E c \in IdSpace : DlDraw(c)
    \/ DlExit
    \/ DlCheck
    \/ DlFetchText
    \/ DlFetch404
    \/ DlFetchRaises
    \/ DlSplit
    \/ DlWriteBody
    \/ DlWriteHeader
    \/ DlWriteRaw
    \/ DlLedger
    \/ DlBack

SpecCalm == Init /\ [][NextCalm]_vars

----------------------------------------------------------------------------
(* The specification of build_index_from_paths called by two processes on the
   same datamart, each for one body file at a time.  The steps of a call are
   interleaved with the steps of the other process: nothing in the code locks
   the JSON file, and build_index_sqlite reads the rows before its
   transaction starts. *)

\* the text of the body file of an identifier
MergeBody(id) == FindHeaderBody(RemoteText(id)).body

\* the rest of the state is left alone by the steps of a merge
MergeFrame ==
    UNCHANGED <<dlFile, ixFile, datalake, rawDir, metaDb, metaCsv, metaMongo, hour,
                pc, argVars, dlLocals, ixLocals, result, histVars, ledgerVars,
                run, failed, ioFail, sText, sHb, obsVars>>

\* step 1: the batch is built from the text of the path
MergeBuild(p, id) ==
    /\ mrg[p].pc = "idle"
    /\ mrg[p].calls < MaxMerges
    /\ mrg' = [mrg EXCEPT ![p] = [@ EXCEPT !.pc = "built", !.id = id,
                                            !.inv = BuildBatch(id, MergeBody(id)),
                                            !.calls = @ + 1]]
    /\ UNCHANGED <<jsonIndex, sqlIndex, mongoIndex>>
    /\ MergeFrame

\* step 2: _load_existing_json_index, and the batch united with it in memory
MergeLoad(p) ==
    /\ mrg[p].pc = "built"
    /\ mrg' = [mrg EXCEPT ![p] = [@ EXCEPT !.pc = "merged",
                   !.acc = MergeBatch(LoadExistingJsonIndex(jsonIndex), mrg[p].inv)]]
    /\ UNCHANGED <<jsonIndex, sqlIndex, mongoIndex>>
    /\ MergeFrame

\* step 3: _dump_json_index(merged, json_path)
MergeDump(p) ==
    /\ mrg[p].pc = "merged"
    /\ jsonIndex' = DumpJsonIndex(mrg[p].acc)
    /\ mrg' = [mrg EXCEPT ![p] = [@ EXCEPT !.pc = "dumped"]]
    /\ UNCHANGED <<sqlIndex, mongoIndex>>
    /\ MergeFrame

\* build_index_sqlite: the SELECT of every term of the batch
MergeSqlSelect(p) ==
    /\ mrg[p].pc = "dumped"
    /\ mrg' = [mrg EXCEPT ![p] = [@ EXCEPT !.pc = "selected",
                   !.sel = [t \in DOMAIN mrg[p].inv \cap DOMAIN sqlIndex |-> sqlIndex[t]]]]
    /\ UNCHANGED <<jsonIndex, sqlIndex, mongoIndex>>
    /\ MergeFrame

\* build_index_sqlite: the UPDATEs and INSERTs computed from the rows read,
\* and the commit; an INSERT of a term another process has inserted meanwhile
\* raises IntegrityError and nothing is committed
MergeSqlWrite(p) ==
    /\ mrg[p].pc = "selected"
    /\ LET inv == mrg[p].inv
           sel == mrg[p].sel
       IN IF \E t \in DOMAIN inv \ DOMAIN sel : t \in DOMAIN sqlIndex
          THEN /\ mrg' = [mrg EXCEPT ![p] = [@ EXCEPT !.pc = "idle"]]
               /\ UNCHANGED sqlIndex
          ELSE /\ sqlIndex' = [t \in DOMAIN sqlIndex \cup DOMAIN inv |->
                                  IF t \in DOMAIN inv THEN BuildIndexSqlite(sel, inv)[t]
                                  ELSE sqlIndex[t]]
               /\ mrg' = [mrg EXCEPT ![p] = [@ EXCEPT !.pc = "written"]]
    /\ UNCHANGED <<jsonIndex, mongoIndex>>
    /\ MergeFrame

\* build_index_mongo, and build_index_from_paths returns
MergeMongo(p, mongoUp) ==
    /\ mrg[p].pc = "written"
    /\ mongoIndex' = IF mongoUp THEN BuildIndexMongo(mongoIndex, mrg[p].inv) ELSE mongoIndex
    /\ mrg' = [mrg EXCEPT ![p] = [@ EXCEPT !.pc = "idle", !.did = @ \cup {mrg[p].id}]]
    /\ UNCHANGED <<jsonIndex, sqlIndex>>
    /\ MergeFrame

InitMerge ==
    /\ InitRest
    /\ pc = "merging"
    /\ target = 0
    /\ total_tries = 0
    /\ cand = 0
    /\ retry = NoRetry
    /\ run = NoRun
    /\ sText = <<>>

NextMerge ==
    \E p \in MergeProcs :
        \/ \E id \in {7, 100} : MergeBuild(p, id)
        \/ MergeLoad(p)
        \/ MergeDump(p)
        \/ MergeSqlSelect(p)
        \/ MergeSqlWrite(p)
        \/ \E up \in BOOLEAN : MergeMongo(p, up)

SpecMerge == InitMerge /\ [][NextMerge]_vars

----------------------------------------------------------------------------
(* The specification of the control loop when the read of a body file inside
   build_index_from_paths can raise, the file having been read without error
   by schedule_index_for_book just before *)

\* p.read_text raises inside build_index_from_paths: the error is logged, the
\* path is skipped (continue) and the call goes on with an empty batch
IxBuildReadRaises ==
    /\ pc = "ix_build"
    /\ ioFail.total < MaxIoFailures
    /\ ioFail' = [tick |-> TRUE, total |-> ioFail.total + 1]
    /\ inverted' = EmptyMap
    /\ pc' = "ix_json"
    /\ UNCHANGED <<storeVars, argVars, dlLocals, ready, idx, curHour, result,
                   histVars, ledgerVars, run, failed, sText, sHb, mrg, obsVars>>

NextReadFail ==
    \/ NextCalm
    \/ IxBuildReadRaises

SpecReadFail == Init /\ [][NextReadFail]_vars

----------------------------------------------------------------------------
(* The specification of the control loop when save_metadata can raise *)

\* save_metadata raises, in the SQLite insert (nothing is written) or, with
\* atCsv, in the CSV write after the SQLite commit; extract_metadata_for_book
\* logs the exception and returns, and the index attempt goes on
IxMetaRaises(atCsv) ==
    /\ pc = "ix_meta"
    /\ ioFail.total < MaxIoFailures
    /\ ioFail' = [tick |-> TRUE, total |-> ioFail.total + 1]
    /\ LET id == ToInt(ready[idx])
       IN /\ metaDb' = IF atCsv
                        THEN Upsert(metaDb, MetaRecord(id, HeaderAt(id, curHour), curHour))
                        ELSE metaDb
          /\ metaFailed' = metaFailed \cup {id}
    /\ pc' = "ix_build"
    /\ UNCHANGED <<dlFile, ixFile, datalake, rawDir, jsonIndex, sqlIndex, mongoIndex,
                   metaCsv, metaMongo, hour, argVars, dlLocals, ixLocals, result,
                   histVars, ledgerVars, run, failed, sText, sHb, mrg, mSaved,
                   completed, kills>>

NextMetaFail ==
    \/ NextCalm
    \/ \E atCsv \in BOOLEAN : IxMetaRaises(atCsv)

SpecMetaFail == Init /\ [][NextMetaFail]_vars

----------------------------------------------------------------------------
(* The specification of save_metadata on its own: any sequence of calls, for
   two identifiers, the headers of their texts and body paths in any time
   partition, MongoDB answering or not *)

MetaInputs ==
    {MetaRecord(id, FindHeaderBody(RemoteText(src)).header, h) :
        id \in {7, 100}, src \in {7, 100}, h \in 0..MaxHour}

InitMeta ==
    /\ InitRest
    /\ pc = "meta"
    /\ target = 0
    /\ total_tries = 0
    /\ cand = 0
    /\ retry = NoRetry
    /\ run = NoRun
    /\ sText = <<>>

\* save_metadata(book_id, meta, body_path)
MetaSave(rec, mongoUp) ==
    /\ pc = "meta"
    /\ Len(metaCsv.rows) < MaxSaves
    /\ SaveMetadata(rec, mongoUp)
    /\ UNCHANGED <<dlFile, ixFile, datalake, rawDir, jsonIndex, sqlIndex, mongoIndex,
                   hour, pc, argVars, dlLocals, ixLocals, result, histVars, ledgerVars,
                   run, failed, ioFail, sText, sHb, mrg, completed, metaFailed, kills>>

NextMeta == \E rec \in MetaInputs, up \in BOOLEAN : MetaSave(rec, up)

SpecMeta == InitMeta /\ [][NextMeta]_vars

----------------------------------------------------------------------------
(* What the claims observe *)

\* the terms of the rows of a JSON index file
TermsIn(file) == {file.rows[k].term : k \in 1..Len(file.rows)}

\* the identifiers listed for a term in a JSON index file
PostingsIn(file, t) ==
    UNION {Range(file.rows[k].postings) :
              k \in {j \in 1..Len(file.rows) : file.rows[j].term = t}}

\* the identifiers of a batch for a term
BatchOf(inv, t) == IF t \in DOMAIN inv THEN inv[t] ELSE {}

\* a sequence without a repeated element
NoRepeat(q) == \A a, b \in 1..Len(q) : a # b => q[a] # q[b]

\* a sequence of strings in ascending (length, string) order
AscendingLenLex(q) == \A a, b \in 1..Len(q) : a < b => LenLexLess(q[a], q[b])

\* the pending set the current tick started with
StartPending == Pending(startDl, startIx)

\* the identifiers listed under some term of a JSON index file
IdsIn(file) == UNION {PostingsIn(file, t) : t \in TermsIn(file)}

\* the positions of control_pipeline between the merge of an identifier into
\* the JSON index and its append to the indexed ledger
MidAppend == {"ix_sqlite", "ix_mongo", "ix_append"}

\* line s of t is the start boundary: the first strict one, or with no strict
\* one anywhere the first loose one
IsStartBoundary(t, s) ==
    /\ s \in 1..Len(t)
    /\ \/ t[s].k = "START" /\ \A h \in 1..(s - 1) : t[h].k # "START"
       \/ /\ t[s].k = "ALTSTART"
          /\ \A h \in 1..Len(t) : t[h].k # "START"
          /\ \A h \in 1..(s - 1) : t[h].k # "ALTSTART"

\* line e of t is the end boundary for the start boundary s: the first strict
\* one after s, or with no strict one after s the first loose one after s
IsEndBoundary(t, s, e) ==
    /\ e \in (s + 1)..Len(t)
    /\ \/ t[e].k = "END" /\ \A h \in (s + 1)..(e - 1) : t[h].k # "END"
       \/ /\ t[e].k = "ALTEND"
          /\ \A h \in (s + 1)..Len(t) : t[h].k # "END"
          /\ \A h \in (s + 1)..(e - 1) : t[h].k # "ALTEND"

\* r is lines a..b of t trimmed: what is cut off at both ends is blank, and
\* what is kept neither starts nor ends with a blank line
IsTrimOf(r, t, a, b) ==
    \E i \in a..(b + 1), j \in (a - 1)..b :
        /\ i <= j + 1
        /\ r = SubSeq(t, i, j)
        /\ \A h \in (a..(i - 1)) \cup ((j + 1)..b) : IsBlank(t[h])
        /\ i <= j => (~IsBlank(t[i]) /\ ~IsBlank(t[j]))

\* the last row of the CSV written for an identifier
LastRow(csv, id) ==
    LET ks == {k \in 1..Len(csv.rows) : csv.rows[k].book_id = id}
    IN csv.rows[CHOOSE k \in ks : \A h \in ks : h <= k]

\* the datalake holds, in one time partition, the body blob and the header
\* blob download_book writes for the identifier
HasBlobPair(id) ==
    \E h \in 0..MaxHour :
        /\ Blob(id, h, "body", FindHeaderBody(RemoteText(id)).body) \in datalake
        /\ Blob(id, h, "header", FindHeaderBody(RemoteText(id)).header) \in datalake

----------------------------------------------------------------------------
(* The claims *)

\* C1: phase ordering. After any sequence of ticks from empty ledgers, with
\* any mix of failing downloads and index attempts, every identifier read from
\* the indexed ledger is also read from the downloaded ledger.
C1_PhaseOrdering == ReadIds(ixFile) \subseteq ReadIds(dlFile)

\* a tick has returned with 7 indexed and 100 downloaded but not indexed
C1_Witness ==
    /\ pc = "done"
    /\ ReadIds(ixFile) = {Str(7)}
    /\ ReadIds(dlFile) = {Str(7), Str(100)}

\* C2: progress semantics. A tick that starts with a non-empty pending set
\* returns True whatever the index attempts did; a tick that starts with an
\* empty pending set and a target <= 0 returns False and issues no fetch.
C2_ProgressSemantics ==
    /\ (pc = "done" /\ StartPending # {}) => result
    /\ (pc = "done" /\ StartPending = {} /\ target <= 0) => ~result
    /\ pc = "dl_fetch" => (StartPending = {} /\ target > 0)

\* a tick with two pending identifiers returned True having indexed one only
C2_Witness ==
    /\ pc = "done"
    /\ result
    /\ Cardinality(StartPending) = 2
    /\ Cardinality(ReadIds(ixFile) \ startIx) = 1

C4_Dedup ==
    /\ [](pc = "dl_fetch" => Str(cand) \notin ReadIds(dlFile))
    /\ [][(pc = "dl_loop" /\ tries' = tries + 1 /\ Str(cand') \in ReadIds(dlFile))
             => (pc' = "dl_loop" /\ new_downloaded' = new_downloaded /\ dlFile' = dlFile)]_vars

\* an identifier downloaded in an earlier tick was drawn and skipped
C4_Witness ==
    /\ pc = "dl_loop"
    /\ tries = 1
    /\ Str(cand) \in startDl
    /\ new_downloaded = 0

\* C5: monotonic postings. No step (so no call of build_index_from_paths)
\* removes a term from the persisted JSON index or an identifier from the
\* postings of a term.
C5_MonotonicPostings ==
    [][\A t \in TermsIn(jsonIndex) :
          /\ t \in TermsIn(jsonIndex')
          /\ PostingsIn(jsonIndex, t) \subseteq PostingsIn(jsonIndex', t)]_vars

\* 7 was merged into an index that held the postings of 100
C5_Witness ==
    /\ pc = "ix_sqlite"
    /\ ready[idx] = Str(7)
    /\ PostingsIn(jsonIndex, "whale") = {Str(7), Str(100)}

\* C6: the merge is exact set union. The step that loads, merges and dumps
\* the JSON index leaves, for every term, the previous postings united with
\* the batch's, and no other term.
C6_ExactUnion ==
    [][pc = "ix_json" =>
          /\ TermsIn(jsonIndex') = TermsIn(jsonIndex) \cup DOMAIN inverted
          /\ \A t \in TermsIn(jsonIndex') :
                PostingsIn(jsonIndex', t) =
                    PostingsIn(jsonIndex, t) \cup BatchOf(inverted, t)]_vars

\* the batch of 100 (whale) was merged and sea, outside the batch, kept {7}
C6_Witness ==
    /\ pc = "ix_sqlite"
    /\ DOMAIN inverted = {"whale"}
    /\ PostingsIn(jsonIndex, "sea") = {Str(7)}
    /\ PostingsIn(jsonIndex, "whale") = {Str(7), Str(100)}

C8_LedgerReadsAppended ==
    /\ ~lfile.exists => ReadIds(lfile) = {}
    /\ ReadIds(lfile) = Range(lappended)
    /\ Cardinality(ReadIds(lfile)) = Cardinality(Range(lappended))

\* the same identifier was appended three times and is read once
C8_Witness ==
    /\ Len(lappended) = 3
    /\ LedgerLines(lfile) = <<Str(100), Str(100), Str(100)>>
    /\ ReadIds(lfile) = {Str(100)}

\* C9: ledger uniqueness. After any sequence of ticks from empty ledgers each
\* identifier is on at most one line of the downloaded ledger file and on at
\* most one line of the indexed ledger file.
C9_LedgerUnique ==
    /\ NoRepeat(LedgerLines(dlFile))
    /\ NoRepeat(LedgerLines(ixFile))

\* C10: permanent failures leave no trace. When download_book returns from
\* the NotFound or the Unrecognized branch, both ledgers, the datalake and the
\* raw directory are as they were when it was entered.
C10_NoTrace ==
    (pc = "dl_back" /\ dlWhy \in {"NotFound", "Unrecognized"}) =>
        /\ ~dlOk
        /\ dlFile = snap.dl
        /\ ixFile = snap.ix
        /\ datalake = snap.lake
        /\ rawDir = snap.raw
        /\ \A b \in datalake : b.id # cand
        /\ \A r \in rawDir : r.id # cand

\* download_book returned NotFound for 55 with a ledger already written
C10_Witness ==
    /\ pc = "dl_back"
    /\ dlWhy = "NotFound"
    /\ cand = 55
    /\ dlFile.exists

\* C11: NotFound is not retried. The alternate URL is fetched only when the
\* primary one answered 404 in the same attempt; attempts advance and sleeps
\* are made only for fetches that raised; and when both URLs answered 404
\* download_book returns False from that very attempt (the first one when no
\* fetch raised before), without a sleep for it, having used one try of the
\* download loop.
C11_NotFoundNotRetried ==
    /\ (pc = "dl_fetch" /\ url = 2) => RemoteUrl(cand) # 1
    /\ pc = "dl_fetch" =>
          /\ attempt = retry.errs + 1
          /\ Len(retry.slept) = retry.errs
    /\ (pc = "dl_back" /\ dlWhy = "NotFound") =>
          /\ ~dlOk
          /\ url = 2
          /\ RemoteUrl(cand) = 0
          /\ attempt = retry.errs + 1
          /\ Len(retry.slept) = retry.errs
          /\ retry.errs = 0 => (attempt = 1 /\ retry.slept = <<>>)
          /\ tries = snap.tries + 1

\* both URLs of 55 answered 404 and download_book returned from attempt 1
C11_Witness ==
    /\ pc = "dl_back"
    /\ dlWhy = "NotFound"
    /\ cand = 55
    /\ url = 2
    /\ attempt = 1
    /\ retry.slept = <<>>

\* C12: bounded retry. A download_book call makes at most max_retries
\* attempts; the sleep after the k-th attempt that raised is min(60, 2^k);
\* and once max_retries attempts have raised the call has returned False.
C12_BoundedRetry ==
    /\ attempt <= retry.max
    /\ retry.errs <= retry.max
    /\ Len(retry.slept) = retry.errs
    /\ \A k \in 1..Len(retry.slept) :
          /\ retry.slept[k] <= 60
          /\ retry.slept[k] <= 2 ^ k
          /\ retry.slept[k] = 60 \/ retry.slept[k] = 2 ^ k
    /\ (retry.max >= 1 /\ retry.errs = retry.max) =>
          /\ pc = "dl_back"
          /\ ~dlOk
          /\ dlWhy = "Exhausted"
          /\ attempt = retry.max
    /\ dlWhy = "Exhausted" => (pc = "dl_back" /\ ~dlOk /\ retry.errs = retry.max)

\* seven attempts of a call with max_retries = 7 raised: the sleeps reached
\* the cap, and the call returned False
C12_Witness ==
    /\ pc = "dl_back"
    /\ dlWhy = "Exhausted"
    /\ retry.max = 7
    /\ retry.slept = <<2, 4, 8, 16, 32, 60, 60>>

\* C13 as stated: an identifier whose fetch ended in NotFound or Unrecognized
\* is not fetched again in the same run of run_pipeline.
C13_NoRefetchInSession == pc = "dl_fetch" => cand \notin failed

\* C13, amended: an identifier whose fetch ended in NotFound or Unrecognized
\* is not fetched again in the same download_book call. When both URLs have
\* answered 404, or the text fetched has no markers, the call returns False
\* at once; the download loop then goes on to its next draw, and nothing
\* (neither the set 'downloaded' nor the ledger) records the identifier.
C13_NoRetryInCall ==
    [][/\ (pc = "dl_fetch" /\ url = 2 /\ RemoteUrl(cand) # 2
            /\ retry'.errs = retry.errs)
           => (pc' = "dl_back" /\ dlWhy' = "NotFound" /\ ~dlOk')
       /\ (pc = "dl_split" /\ ~FindHeaderBody(RemoteText(cand)).ok)
           => (pc' = "dl_back" /\ dlWhy' = "Unrecognized" /\ ~dlOk')
       /\ (pc = "dl_back" /\ dlWhy \in Permanent)
           => /\ pc' = "dl_loop"
              /\ Str(cand) \notin downloaded'
              /\ downloaded' = downloaded
              /\ dlFile' = dlFile
              /\ new_downloaded' = new_downloaded]_vars

\* in one run, download_book returned Unrecognized for 12 a second time
C13_Witness ==
    /\ pc = "dl_back"
    /\ dlWhy = "Unrecognized"
    /\ cand = 12
    /\ cand \in failed

\* C14: the marker split. _find_header_body returns None exactly when the
\* text has no start boundary (strict, else loose) or no end boundary after
\* it; otherwise the end boundary lies after the start boundary, the header
\* is the trimmed text before the start boundary and the body the trimmed text
\* strictly between the two boundaries.
C14_MarkerSplit ==
    pc = "split_done" =>
        /\ sHb.ok <=> \E s, e \in 1..Len(sText) :
                          IsStartBoundary(sText, s) /\ IsEndBoundary(sText, s, e)
        /\ ~sHb.ok => (sHb.header = <<>> /\ sHb.body = <<>>)
        /\ \A s, e \in 1..Len(sText) :
              (sHb.ok /\ IsStartBoundary(sText, s) /\ IsEndBoundary(sText, s, e)) =>
                  /\ s < e
                  /\ IsTrimOf(sHb.header, sText, 1, s - 1)
                  /\ IsTrimOf(sHb.body, sText, s + 1, e - 1)

\* a text with words before the start boundary and between the boundaries
\* was split
C14_Witness ==
    /\ pc = "split_done"
    /\ sHb.ok
    /\ sHb.header # <<>>
    /\ sHb.body # <<>>

\* C15: index outcome handling. The indexed ledger changes only by the append
\* that follows a successful index attempt of the identifier (its postings
\* are in the JSON index), and every successful attempt is followed by that
\* append; a failed attempt (no body file, or an exception) leaves the ledger
\* alone and the identifier pending, and the next tick takes every pending
\* identifier into its indexing pass.
C15_IndexOutcome ==
    /\ [](pc \notin MidAppend => ReadIds(ixFile) = IdsIn(jsonIndex))
    /\ [][/\ ixFile' # ixFile =>
               /\ pc = "ix_append"
               /\ ready[idx] \in IdsIn(jsonIndex)
               /\ ReadIds(ixFile') = ReadIds(ixFile) \cup {ready[idx]}
          /\ pc = "ix_append" => ready[idx] \in ReadIds(ixFile')
          /\ (pc \in {"ix_find", "ix_read"} /\ pc' = "ix_loop") =>
               /\ ixFile' = ixFile
               /\ ready[idx] \in Pending(ReadIds(dlFile'), ReadIds(ixFile'))
          /\ (pc \in {"idle", "done"} /\ pc' # pc
                 /\ Pending(ReadIds(dlFile), ReadIds(ixFile)) # {}) =>
               /\ pc' = "ix_loop"
               /\ idx' = 1
               /\ Range(ready') = Pending(ReadIds(dlFile), ReadIds(ixFile))]_vars

\* an indexing pass over 100 and 7 has attempted both: 100 succeeded and is
\* in the indexed ledger, 7 failed and is still pending
C15_Witness ==
    /\ pc = "ix_loop"
    /\ ready = <<Str(100), Str(7)>>
    /\ idx = 3
    /\ Str(100) \in ReadIds(ixFile) \ startIx
    /\ Str(7) \in Pending(ReadIds(dlFile), ReadIds(ixFile))

\* C16: failure isolation. The indexing pass goes through ready_to_index (the
\* pending identifiers, each once) one position at a time and returns only
\* past its last position, whatever each attempt did: a failed attempt moves
\* to the next identifier. In the download loop a failed download_book
\* changes neither the counters nor the set 'downloaded' (the identifier can
\* be drawn and handed to download_book again), and the loop ends only when
\* its while condition is false.
C16_FailureIsolation ==
    /\ [](pc \in IxPcs =>
            /\ idx \in 1..(Len(ready) + 1)
            /\ NoRepeat(ready)
            /\ Range(ready) = StartPending)
    /\ [][/\ (pc \in IxPcs /\ pc' = "done") => idx = Len(ready) + 1
          /\ (pc \in IxPcs /\ pc' # "done") =>
               /\ ready' = ready
               /\ idx' = idx \/ (idx' = idx + 1 /\ pc' = "ix_loop")
          /\ (pc \in {"ix_find", "ix_read"} /\ pc' \notin {"ix_read", "ix_meta"}) =>
               /\ pc' = "ix_loop"
               /\ idx' = idx + 1
          /\ (pc = "dl_back" /\ ~dlOk) =>
               /\ pc' = "dl_loop"
               /\ tries' = tries
               /\ new_downloaded' = new_downloaded
               /\ argVars' = argVars
               /\ downloaded' = downloaded
               /\ Str(cand) \notin downloaded'
          /\ (pc = "dl_loop" /\ pc' = "done") => ~LoopGoesOn]_vars

\* nothing was downloaded before this tick, its first draw failed, and the
\* loop is fetching for its second draw
C16_Witness ==
    /\ pc = "dl_fetch"
    /\ startDl = {}
    /\ tries = 2
    /\ new_downloaded = 0

\* C17: a ledger or index I/O failure is fatal to the tick. A call of
\* control_pipeline in which a write of a ledger entry or of the cumulative
\* index failed does not return True with no progress recorded in a ledger
\* (the failure reaches the caller instead).
C17_IoFailureFatal ==
    (pc = "done" /\ result /\ ioFail.tick) =>
        (ReadIds(dlFile) # startDl \/ ReadIds(ixFile) # startIx)

\* C18: one phase per tick, indexing first. A tick that started with a
\* non-empty pending set stays in the indexing pass until it returns and
\* leaves the downloaded ledger as it was; a tick in the download loop
\* started with an empty pending set and leaves the indexed ledger as it was;
\* no tick passes from one phase to the other.
C18_OnePhasePerTick ==
    /\ [](pc \in IxPcs => (StartPending # {} /\ ReadIds(dlFile) = startDl))
    /\ [](pc \in DlPcs => (StartPending = {} /\ ReadIds(ixFile) = startIx))
    /\ [](pc = "done" => (ReadIds(dlFile) = startDl \/ ReadIds(ixFile) = startIx))
    /\ [][/\ pc \in IxPcs => pc' \in IxPcs \cup {"done"}
          /\ pc \in DlPcs => pc' \in DlPcs \cup {"done"}]_vars

\* a tick called with a download target has returned from an indexing pass:
\* it indexed and fetched nothing
C18_Witness ==
    /\ pc = "done"
    /\ target > 0
    /\ StartPending # {}
    /\ ReadIds(ixFile) # startIx
    /\ ReadIds(dlFile) = startDl

\* C19: the download burst is bounded. In the download loop tries never
\* exceeds total_tries and new_downloaded, the number of identifiers added,
\* never exceeds the target; each draw counts one try; the loop returns as
\* soon as one of the two bounds is reached, and it does return.
C19_BoundedBurst ==
    /\ [](pc \in DlPcs =>
            /\ tries <= total_tries
            /\ new_downloaded <= target
            /\ new_downloaded <= tries
            /\ Cardinality(downloaded \ startDl) = new_downloaded)
    /\ [][/\ (pc = "dl_loop" /\ (new_downloaded >= target \/ tries >= total_tries))
               => pc' = "done"
          /\ (pc \in DlPcs /\ pc' # "done" /\ tries' # tries)
               => (pc = "dl_loop" /\ tries' = tries + 1)
          /\ (pc \in DlPcs /\ pc' # "done" /\ new_downloaded' # new_downloaded)
               => (pc = "dl_back" /\ dlOk /\ new_downloaded' = new_downloaded + 1)]_vars
    /\ <>(pc = "done")

\* the loop has reached its target of one download with a try to spare: its
\* next step is the return
C19_Witness ==
    /\ pc = "dl_loop"
    /\ target = 1
    /\ new_downloaded = 1
    /\ total_tries = 2
    /\ tries = 1

\* C20: the caller loop terminates. Every run of run_pipeline, with or
\* without --loop, reaches the end of its while loop.
C20_CallerLoopEnds == <>(pc = "finished")

\* C21: the session target with --loop. Over one run of run_pipeline, started
\* on empty stores, the number of identifiers downloaded does not exceed
\* --target-new.
C21_SessionTarget ==
    run.on => Cardinality(ReadIds(dlFile)) <= (IF run.target_new > 0 THEN run.target_new ELSE 0)

\* C22: a failure of the secondary store is not fatal. The step of
\* build_index_mongo, whether MongoDB answers or not, leaves the JSON index
\* holding the batch's postings united with the earlier ones and goes on to the
\* append to the indexed ledger, and that append records the identifier.
C22_MongoFailureNonFatal ==
    [][/\ pc = "ix_mongo" =>
            /\ pc' = "ix_append"
            /\ jsonIndex' = jsonIndex
            /\ sqlIndex' = sqlIndex
            /\ \A t \in DOMAIN inverted :
                  /\ BatchOf(inverted, t) \subseteq PostingsIn(jsonIndex', t)
                  /\ BatchOf(inverted, t) \subseteq Range(sqlIndex'[t])
       /\ pc = "ix_append" =>
            /\ pc' = "ix_loop"
            /\ ready[idx] \in ReadIds(ixFile')]_vars

\* 7 and 100 were indexed while MongoDB never answered: both are in the
\* indexed ledger and in the JSON index, and the collection is empty
C22_Witness ==
    /\ pc = "done"
    /\ result
    /\ ReadIds(ixFile) = {Str(7), Str(100)}
    /\ PostingsIn(jsonIndex, "whale") = {Str(7), Str(100)}
    /\ DOMAIN mongoIndex = {}

C24_CompletedDownloadsKept ==
    \A id \in completed : Str(id) \in ReadIds(dlFile)

\* the process was killed after download_book had returned True for 7 and
\* before control_pipeline appended it a second time: the ledger holds the
\* line download_book wrote
C24_Witness ==
    /\ kills = 1
    /\ pc = "idle"
    /\ completed = {7}
    /\ dlFile.chars = Str(7) \o <<NL>>

\* C25: a crash during indexing. Over every step, a kill in the middle of a
\* merge included, what the next load of the JSON index yields holds, for
\* every term, at least the postings the load yielded before the step.
C25_IndexSurvivesKill ==
    [][\A t \in DOMAIN LoadExistingJsonIndex(jsonIndex) :
          /\ t \in DOMAIN LoadExistingJsonIndex(jsonIndex')
          /\ LoadExistingJsonIndex(jsonIndex)[t] \subseteq
                LoadExistingJsonIndex(jsonIndex')[t]]_vars

\* C26: merge idempotence. When the batch of a document is already in an
\* index (the document is indexed again after a failure between the merge and
\* the ledger append), the merge into the JSON index leaves the file exactly
\* as it was, and the merge into SQLite leaves the table exactly as it was.
C26_MergeIdempotent ==
    [][/\ (/\ pc = "ix_json"
           /\ \A t \in DOMAIN inverted : inverted[t] \subseteq PostingsIn(jsonIndex, t))
          => jsonIndex' = jsonIndex
       /\ (/\ pc = "ix_sqlite"
           /\ \A t \in DOMAIN inverted :
                 t \in DOMAIN sqlIndex /\ inverted[t] \subseteq Range(sqlIndex[t]))
          => sqlIndex' = sqlIndex]_vars

\* 7 is being indexed a second time, its first append to the indexed ledger
\* having failed: both merges were made again, over an index that also holds
\* the postings of 100
C26_Witness ==
    /\ pc = "ix_mongo"
    /\ ready[idx] = Str(7)
    /\ ioFail.total >= 1
    /\ Len(SelectSeq(metaCsv.rows, LAMBDA r : r.book_id = 7)) = 2
    /\ PostingsIn(jsonIndex, "whale") = {Str(7), Str(100)}
    /\ sqlIndex["whale"] = <<Str(7), Str(100)>>

\* C27: one blob pair per identifier. At every point of every tick, kills and
\* restarts in a later time partition included, the datalake holds at most
\* one body blob and at most one header blob of each identifier.
C27_OneBlobPair ==
    \A id \in IdSpace :
        /\ Cardinality(BodyBlobs(id)) <= 1
        /\ Cardinality({b \in datalake : b.id = id /\ b.kind = "header"}) <= 1

\* C28: download success implies persisted blobs. At every point of every
\* tick, kills and restarts included, download_book has returned True only
\* for an identifier whose body and header blobs are in the datalake, and
\* every identifier in the downloaded ledger has both blobs.
C28_LedgerImpliesBlobs ==
    /\ (pc = "dl_back" /\ dlOk) => HasBlobPair(cand)
    /\ \A s \in ReadIds(dlFile) : HasBlobPair(ToInt(s))

\* download_book has returned True for 7, after a download of 100 was killed
\* while it wrote the header blob: 100 has a body blob and no ledger line
C28_Witness ==
    /\ pc = "dl_back"
    /\ dlOk
    /\ dlWhy = "Saved"
    /\ cand = 7
    /\ kills = 1
    /\ Blob(100, 0, "header", <<>>) \in datalake
    /\ BodyBlobs(100) # {}
    /\ ReadIds(dlFile) = {Str(7)}

\* C29, as claimed: within an indexing pass the pending identifiers are
\* attempted in ascending numeric order, 7 before 100.
C29_NumericOrder ==
    pc \in IxPcs =>
        \A i, j \in 1..Len(ready) : i < j => ToInt(ready[i]) < ToInt(ready[j])

\* C29, amended: within an indexing pass the pending identifiers are attempted
\* in ascending order of their decimal strings ("100" before "7"), each once,
\* one position at a time, whatever the ledgers hold.
C29_StringOrder ==
    [][pc' \in IxPcs =>
          /\ Range(ready') = Pending(startDl', startIx')
          /\ \A i, j \in 1..Len(ready') : i < j => LexLess(ready'[i], ready'[j])
          /\ pc \in IxPcs => (ready' = ready /\ idx' \in {idx, idx + 1})
          /\ pc \notin IxPcs => idx' = 1]_vars

\* 100 was attempted (and indexed) first, and 7 is attempted now
C29_Witness ==
    /\ pc = "ix_find"
    /\ ready = <<Str(100), Str(7)>>
    /\ idx = 2
    /\ Str(100) \in ReadIds(ixFile)
    /\ Str(7) \notin ReadIds(ixFile)

\* C30: no starvation of downloads. In a run of run_pipeline --loop with a
\* positive --target-new, whenever a tick has returned True (and so another
\* tick is made), the download loop is entered at some later point.
C30_DownloadsNotStarved ==
    (pc = "done" /\ result /\ run.on /\ run.loop /\ run.target_new > 0) ~> (pc \in DlPcs)

\* C31: staleness is bounded to one tick. While the blobs stay readable, a
\* tick that starts with pending identifiers (downloaded by an earlier tick)
\* is an indexing pass over all of them; when it returns it returns True, each
\* of them is in the indexed ledger and nothing is pending; and a tick with
\* target 0 that starts with nothing pending returns False.
C31_StalenessOneTick ==
    [][/\ (pc \in {"idle", "done"} /\ pc' \notin {"idle", "done"}) =>
            /\ Pending(ReadIds(dlFile), ReadIds(ixFile)) # {} =>
                  (pc' = "ix_loop" /\ Range(ready') = Pending(ReadIds(dlFile), ReadIds(ixFile)))
            /\ Pending(ReadIds(dlFile), ReadIds(ixFile)) = {} => pc' = "dl_loop"
       /\ (pc' = "done" /\ Pending(startDl', startIx') # {}) =>
            /\ result'
            /\ Pending(startDl', startIx') \subseteq ReadIds(ixFile')
            /\ Pending(ReadIds(dlFile'), ReadIds(ixFile')) = {}
       /\ (pc' = "done" /\ Pending(startDl', startIx') = {} /\ target' <= 0) =>
            /\ ~result'
            /\ ReadIds(dlFile') = startDl'
            /\ ReadIds(ixFile') = startIx']_vars

\* 7 and 100 were downloaded by an earlier tick and pending when this tick
\* started; it has returned True with both in the indexed ledger
C31_Witness ==
    /\ pc = "done"
    /\ result
    /\ startDl = {Str(7), Str(100)}
    /\ startIx = {}
    /\ ReadIds(ixFile) = {Str(7), Str(100)}

\* C32: no lost update under concurrent merges. Whenever no merge is going
\* on, the JSON index holds, under every term of every document whose
\* build_index_from_paths call has returned, the identifier of the document.
C32_NoLostUpdate ==
    (\A p \in MergeProcs : mrg[p].pc = "idle") =>
        \A p \in MergeProcs : \A id \in mrg[p].did :
            \A t \in DOMAIN BuildBatch(id, MergeBody(id)) :
                Str(id) \in PostingsIn(jsonIndex, t)

\* C33: the representations agree. Outside a build_index_from_paths call
\* (that is, except between its JSON dump and its SQLite commit) the SQLite
\* table and the JSON index hold the same terms, each once, and for every
\* term the same postings in the same order.
C33_SqliteAgreesWithJson ==
    pc # "ix_sqlite" =>
        /\ DOMAIN sqlIndex = TermsIn(jsonIndex)
        /\ Len(jsonIndex.rows) = Cardinality(TermsIn(jsonIndex))
        /\ \A k \in 1..Len(jsonIndex.rows) :
              sqlIndex[jsonIndex.rows[k].term] = jsonIndex.rows[k].postings

\* 100 and then 7 were indexed: both stores list whale as 7, 100 and sea as 7
C33_Witness ==
    /\ pc = "done"
    /\ ReadIds(ixFile) = {Str(7), Str(100)}
    /\ DOMAIN sqlIndex = {"sea", "whale"}
    /\ sqlIndex["whale"] = <<Str(7), Str(100)>>
    /\ jsonIndex.rows = <<[term |-> "sea", postings |-> <<Str(7)>>],
                          [term |-> "whale", postings |-> <<Str(7), Str(100)>>]>>

\* C34: indexed means searchable. At every point of every tick, every
\* identifier in the indexed ledger is, in the JSON index, in the postings of
\* every term the tokenizer yields from its body.
C34_IndexedMeansSearchable ==
    \A s \in ReadIds(ixFile) :
        \A t \in DOMAIN BuildBatch(ToInt(s), MergeBody(ToInt(s))) :
            s \in PostingsIn(jsonIndex, t)

====
